---- MODULE Spec2Model ----
(***************************************************************************)
(* Crossword constraint-satisfaction solver of pset3/crossword/generate.py *)
(* (class CrosswordCreator) with the worklist helpers of helpers.py.       *)
(*                                                                         *)
(* Words are sequences of one-letter strings.  Character offsets are       *)
(* 0-based as in the source, so word[k] of the source is word[k + 1] here. *)
(* A Python set or dict is iterated in an order the program does not       *)
(* choose: the iteration order of crossword.variables is the state         *)
(* variable varOrder (fixed for one run), every other set iteration is a   *)
(* choice made by the action that iterates.                                *)
(***************************************************************************)
EXTENDS Integers, Sequences, FiniteSets, TLC

VARIABLES crossword, varOrder, domains, pc, queue, revised, ac3ret, assignment,
          stack, result, initialAc3, initialDomains, ac3stats, firstResult, ret

vars == <<crossword, varOrder, domains, pc, queue, revised, ac3ret, assignment,
          stack, result, initialAc3, initialDomains, ac3stats, firstResult, ret>>

-----------------------------------------------------------------------------
(* Bounds of the model *)

\* largest number of words in a dictionary
MaxWords == 3

-----------------------------------------------------------------------------
(* Generic helpers *)

\* all orders in which a finite set can be iterated
Perms(S) ==
    {f \in [1..Cardinality(S) -> S] : \A a, b \in 1..Cardinality(S) : a # b => f[a] # f[b]}

\* elements of a sequence
Range(s) == {s[k] : k \in 1..Len(s)}

\* insert e into the sorted sequence s after every element whose key is <= key[e]
RECURSIVE InsertByKey(_, _, _)
InsertByKey(s, e, key) ==
    IF s = <<>> THEN <<e>>
    ELSE IF key[Head(s)] <= key[e] THEN <<Head(s)>> \o InsertByKey(Tail(s), e, key)
    ELSE <<e>> \o s

\* Python's sorted(items, key=...), which is stable
RECURSIVE sorted(_, _)
sorted(s, key) ==
    IF s = <<>> THEN <<>>
    ELSE InsertByKey(sorted(SubSeq(s, 1, Len(s) - 1), key), s[Len(s)], key)

-----------------------------------------------------------------------------
(* The crossword: variables (slots), overlaps, neighbours *)

ACROSS == "across"
DOWN == "down"

\* overlaps[(x, y)] of two slots that share no cell
None == <<>>

Variable(i, j, direction, length) ==
    [i |-> i, j |-> j, direction |-> direction, length |-> length]

\* the cells a slot occupies, in word order
Cells(v) ==
    [k \in 1..v.length |->
        <<v.i + (IF v.direction = DOWN THEN k - 1 ELSE 0),
          v.j + (IF v.direction = ACROSS THEN k - 1 ELSE 0)>>]

\* 0-based position of cell c in a slot's cells
IndexOf(cells, c) == (CHOOSE k \in 1..Len(cells) : cells[k] = c) - 1

\* crossword.overlaps[(v1, v2)]: None or the pair of offsets of the shared cell
Overlaps(v1, v2) ==
    LET intersection == Range(Cells(v1)) \cap Range(Cells(v2))
    IN  IF intersection = {} THEN None
        ELSE LET c == CHOOSE c \in intersection : TRUE
             IN  <<IndexOf(Cells(v1), c), IndexOf(Cells(v2), c)>>

\* crossword.neighbors(var)
Neighbors(cw, var) ==
    {v \in cw.variables : v # var /\ Overlaps(v, var) # None}

\* the slot structures the model is run on
Structures ==
    { \* two slots crossing at the middle letter of each
      {Variable(1, 0, ACROSS, 3), Variable(0, 1, DOWN, 3)},
      \* two slots of equal length that share no cell
      {Variable(0, 0, ACROSS, 3), Variable(2, 0, ACROSS, 3)},
      \* a chain: the down slot crosses both across slots
      {Variable(0, 0, ACROSS, 3), Variable(0, 0, DOWN, 3), Variable(2, 0, ACROSS, 3)},
      \* slots of different lengths, the across slot crosses both down slots
      {Variable(0, 0, ACROSS, 3), Variable(0, 0, DOWN, 2), Variable(0, 2, DOWN, 3)} }

\* the words dictionaries are drawn from
Pool ==
    { <<"a", "a", "a">>, <<"a", "a", "b">>, <<"b", "a", "a">>, <<"b", "a", "b">>,
      <<"a", "b">>, <<"b", "a">> }

Dictionaries == {d \in SUBSET Pool : Cardinality(d) <= MaxWords}

\* the two-slot cross with the dictionary {cat, car, dog}
Cat == <<"c", "a", "t">>
Car == <<"c", "a", "r">>
Dog == <<"d", "o", "g">>

CrossCatCarDog ==
    [variables |-> {Variable(1, 0, ACROSS, 3), Variable(0, 1, DOWN, 3)},
     words |-> {Cat, Car, Dog}]

Crosswords == [variables : Structures, words : Dictionaries] \cup {CrossCatCarDog}

-----------------------------------------------------------------------------
(* enforce_node_consistency *)

\* the inner loop removing only the words that are too long
RemoveLonger(remaining, dom, key) ==
    {domain \in dom : Len(domain) <= key.length}

\* the inner loop over copy.deepcopy(self.domains[key])
RECURSIVE RemoveWrongLength(_, _, _)
RemoveWrongLength(remaining, dom, key) ==
    IF remaining = {} THEN dom
    ELSE LET domain == CHOOSE w \in remaining : TRUE
         IN  RemoveWrongLength(remaining \ {domain},
                               IF key.length # Len(domain) THEN dom \ {domain} ELSE dom,
                               key)

\* the loop run over the live set instead of a copy: it stops after its first removal
EnforceFirstRemoval(doms) ==
    [key \in DOMAIN doms |->
        IF \E w \in doms[key] : key.length # Len(w)
        THEN doms[key] \ {CHOOSE w \in doms[key] : key.length # Len(w)}
        ELSE doms[key]]

EnforceNodeConsistency(doms) ==
    [key \in DOMAIN doms |-> RemoveWrongLength(doms[key], doms[key], key)]

-----------------------------------------------------------------------------
(* revise *)

\* the inner loop without the test that the two words differ
FoundSameWord(domainX, dy, charX, charY) ==
    \E domainY \in dy :
        /\ Len(domainY) > charY /\ Len(domainX) > charX
        /\ domainX[charX + 1] = domainY[charY + 1]

\* the inner loop over self.domains[y]: is found set for domainX
Found(domainX, dy, charX, charY) ==
    \E domainY \in dy :
        /\ Len(domainY) > charY /\ Len(domainX) > charX
        /\ domainX # domainY
        /\ domainX[charX + 1] = domainY[charY + 1]

\* the outer loop over copy.deepcopy(self.domains[x]): remaining are the words still
\* to visit, dx is self.domains[x] and rev is revised so far
RECURSIVE ReviseLoop(_, _, _, _, _, _)
ReviseLoop(remaining, dx, rev, dy, charX, charY) ==
    IF remaining = {} THEN [domain |-> dx, revised |-> rev]
    ELSE LET domainX == CHOOSE w \in remaining : TRUE
         IN  IF Found(domainX, dy, charX, charY)
             THEN ReviseLoop(remaining \ {domainX}, dx, rev, dy, charX, charY)
             ELSE ReviseLoop(remaining \ {domainX}, dx \ {domainX}, TRUE, dy, charX, charY)

\* revise with x and y mixed up in the final write: the revised set goes to y
ReviseWritesY(doms, x, y) ==
    IF Overlaps(x, y) = None THEN [domains |-> doms, revised |-> FALSE]
    ELSE LET overlap == Overlaps(x, y)
             r == ReviseLoop(doms[x], doms[x], FALSE, doms[y], overlap[1], overlap[2])
         IN  [domains |-> [doms EXCEPT ![y] = r.domain], revised |-> r.revised]

\* revise(x, y): the new domain map and the returned flag
Revise(doms, x, y) ==
    IF Overlaps(x, y) = None THEN [domains |-> doms, revised |-> FALSE]
    ELSE LET overlap == Overlaps(x, y)
             r == ReviseLoop(doms[x], doms[x], FALSE, doms[y], overlap[1], overlap[2])
         IN  [domains |-> [doms EXCEPT ![x] = r.domain], revised |-> r.revised]

-----------------------------------------------------------------------------
(* helpers.py: the worklist, a dict keyed by arcs, kept in insertion order *)

\* keys of crossword.overlaps in insertion order: every ordered pair of distinct slots
OverlapKeys(order) ==
    LET n == Len(order)
        pairs == [k \in 1..(n * n) |-> <<order[((k - 1) \div n) + 1], order[((k - 1) % n) + 1]>>]
    IN  SelectSeq(pairs, LAMBDA p : p[1] # p[2])

\* removeNone(queue): drop the arcs that have no overlap
removeNone(q) == SelectSeq(q, LAMBDA p : Overlaps(p[1], p[2]) # None)

\* deQueue(queue): the first key of the dict
deQueue(q) == Head(q)

\* an ac3 that does not put the arcs (z, x) back on the worklist
EnqueueNothing(q, zs, x) == q

\* queue[z, x] = ... for each z of zs: a key already present keeps its place
RECURSIVE Enqueue(_, _, _)
Enqueue(q, zs, x) ==
    IF zs = <<>> THEN q
    ELSE Enqueue(IF <<Head(zs), x>> \in Range(q) THEN q ELSE Append(q, <<Head(zs), x>>),
                 Tail(zs), x)

-----------------------------------------------------------------------------
(* assignment_complete, consistent *)

\* a partial assignment is a function from the assigned slots to words
EmptyAssignment == [v \in {} |-> <<>>]

\* assignment_complete without the comparison of the two lengths
AssignmentCompleteNoCount(cw, a) ==
    \A key \in DOMAIN a : a[key] # None

\* assignment_complete that is satisfied one slot early
AssignmentCompleteOneShort(cw, a) ==
    Cardinality(DOMAIN a) >= Cardinality(cw.variables) - 1

AssignmentComplete(cw, a) ==
    Cardinality(DOMAIN a) = Cardinality(cw.variables)

\* the loop of consistent over assignment.keys(), words being the words seen so far
RECURSIVE ConsistentLoop(_, _, _, _)
ConsistentLoop(cw, a, remaining, words) ==
    IF remaining = {} THEN TRUE
    ELSE LET key == CHOOSE k \in remaining : TRUE
         IN  IF Len(a[key]) # key.length THEN FALSE
             ELSE IF a[key] \in words THEN FALSE
             ELSE IF \E neighbor \in Neighbors(cw, key) :
                        /\ neighbor \in DOMAIN a
                        /\ a[key][Overlaps(key, neighbor)[1] + 1]
                             # a[neighbor][Overlaps(key, neighbor)[2] + 1]
                  THEN FALSE
             ELSE ConsistentLoop(cw, a, remaining \ {key}, words \cup {a[key]})

\* consistent without the check that the word is distinct
ConsistentNoDistinct(cw, a) ==
    /\ \A key \in DOMAIN a : Len(a[key]) = key.length
    /\ \A key \in DOMAIN a : \A neighbor \in Neighbors(cw, key) \cap DOMAIN a :
          a[key][Overlaps(key, neighbor)[1] + 1] = a[neighbor][Overlaps(key, neighbor)[2] + 1]

Consistent(cw, a) == ConsistentLoop(cw, a, DOMAIN a, {})

\* a neighbour loop that never meets an assigned neighbour
NeighborCheckNone(cw, a, key, nbrs) == "True"

\* consistent, lines 199-203: the loop over the neighbours of key, iterated in the
\* order nbrs; "IndexError" when the neighbour's word is too short for the offset
RECURSIVE NeighborCheck(_, _, _, _)
NeighborCheck(cw, a, key, nbrs) ==
    IF nbrs = <<>> THEN "True"
    ELSE LET neighbor == Head(nbrs)
             overlap == Overlaps(key, neighbor)
         IN  IF neighbor \notin DOMAIN a THEN NeighborCheck(cw, a, key, Tail(nbrs))
             ELSE IF Len(a[neighbor]) <= overlap[2] THEN "IndexError"
             ELSE IF a[key][overlap[1] + 1] # a[neighbor][overlap[2] + 1] THEN "False"
             ELSE NeighborCheck(cw, a, key, Tail(nbrs))

\* consistent called on any assignment: keys is assignment.keys() in insertion
\* order, order the iteration order of the slots; the value returned, or "IndexError"
RECURSIVE ConsistentCall(_, _, _, _, _)
ConsistentCall(cw, a, keys, words, order) ==
    IF keys = <<>> THEN "True"
    ELSE LET key == Head(keys)
         IN  IF Len(a[key]) # key.length THEN "False"
             ELSE IF a[key] \in words THEN "False"
             ELSE \* the value of the neighbour loop, bound once
                  LET n == NeighborCheck(cw, a, key,
                                         SelectSeq(order, LAMBDA v : v \in Neighbors(cw, key)))
                  IN  IF n # "True" THEN n
                      ELSE ConsistentCall(cw, a, Tail(keys), words \cup {a[key]}, order)

\* consistent indexes a neighbour's word before checking that word's length
ConsistentRaises(cw, a) ==
    \E key \in DOMAIN a : \E neighbor \in Neighbors(cw, key) \cap DOMAIN a :
        Len(a[neighbor]) <= Overlaps(key, neighbor)[2]

-----------------------------------------------------------------------------
(* order_domain_values, select_unassigned_variable *)

\* order[value]: the number of neighbours whose domain holds value
RulesOut(cw, doms, var) ==
    [value \in doms[var] |->
        Cardinality({neighbor \in Neighbors(cw, var) : value \in doms[neighbor]})]

\* order_domain_values that leaves out the words some neighbour's domain holds
OrderDomainValuesUnshared(cw, doms, var, iter) ==
    SelectSeq(iter, LAMBDA value : RulesOut(cw, doms, var)[value] = 0)

\* iter is the order in which self.domains[var] is iterated
OrderDomainValues(cw, doms, var, iter) ==
    sorted(iter, RulesOut(cw, doms, var))

\* the unassigned slots in iteration order, sorted by domain size
SortedVariables(cw, order, doms, a) ==
    sorted(SelectSeq(order, LAMBDA v : v \notin DOMAIN a),
           [v \in cw.variables |-> Cardinality(doms[v])])

\* select_unassigned_variable without the sort by domain size
SelectFirstUnassigned(cw, order, doms, a) ==
    Head(SelectSeq(order, LAMBDA v : v \notin DOMAIN a))

SelectUnassignedVariable(cw, order, doms, a) ==
    Head(SortedVariables(cw, order, doms, a))

-----------------------------------------------------------------------------
(* State *)

NoResult == [returned |-> FALSE, none |-> FALSE, assignment |-> EmptyAssignment]

Frame(a, var, values, doms) ==
    [assignment |-> a, var |-> var, values |-> values, next |-> 1,
     value |-> <<>>, new_assignment |-> a, inferenceValues |-> {},
     before |-> doms, entry |-> doms]

Top == stack[Len(stack)]

\* the number of candidate words across all domains
RECURSIVE SumSizes(_, _)
SumSizes(doms, remaining) ==
    IF remaining = {} THEN 0
    ELSE LET v == CHOOSE u \in remaining : TRUE
         IN  Cardinality(doms[v]) + SumSizes(doms, remaining \ {v})

TotalCandidates(doms) == SumSizes(doms, DOMAIN doms)

\* what solve never changes: the crossword, its iteration order, the domains as
\* constructed, the result of an earlier run, the value returned by a function called alone
env == <<crossword, varOrder, initialDomains, firstResult, ret>>

Init ==
    /\ crossword \in Crosswords
    /\ varOrder \in Perms(crossword.variables)
    /\ domains = [var \in crossword.variables |-> crossword.words]
    /\ initialDomains = domains
    /\ pc = "solve"
    /\ queue = <<>>
    /\ revised = FALSE
    /\ ac3ret = FALSE
    /\ assignment = EmptyAssignment
    /\ stack = <<>>
    /\ result = NoResult
    /\ initialAc3 = "pending"
    /\ ac3stats = [start |-> 0, productive |-> 0]
    /\ firstResult = NoResult
    /\ ret = "none"

\* solve, line 94: self.enforce_node_consistency()
NodeConsistency ==
    /\ pc = "solve"
    /\ domains' = EnforceNodeConsistency(domains)
    /\ pc' = "ac3_start"
    /\ UNCHANGED <<env, ac3stats, revised, queue, ac3ret, assignment, stack, result, initialAc3>>

\* ac3, lines 151-154: the worklist starts as every arc
Ac3Start ==
    /\ pc = "ac3_start"
    /\ queue' = removeNone(OverlapKeys(varOrder))
    /\ ac3stats' = [start |-> TotalCandidates(domains), productive |-> 0]
    /\ pc' = "ac3_loop"
    /\ UNCHANGED <<env, revised, domains, ac3ret, assignment, stack, result, initialAc3>>

\* ac3, lines 157-167: one iteration of the while loop
Ac3Revise ==
    /\ pc = "ac3_loop"
    /\ queue # <<>>
    /\ \E arc \in {deQueue(queue)} : \E r \in {Revise(domains, arc[1], arc[2])} :
           /\ domains' = r.domains
           /\ revised' = r.revised
           /\ ac3stats' = [ac3stats EXCEPT !.productive = IF r.domains # domains THEN @ + 1 ELSE @]
           /\ IF r.revised /\ r.domains[arc[1]] = {}
              THEN /\ queue' = Tail(queue)
                   /\ ac3ret' = FALSE
                   /\ pc' = "ac3_done"
                   /\ initialAc3' = IF stack = <<>> THEN "false" ELSE initialAc3
              ELSE IF r.revised
              THEN /\ \E zs \in Perms(Neighbors(crossword, arc[1]) \ {arc[2]}) :
                          queue' = Enqueue(Tail(queue), zs, arc[1])
                   /\ UNCHANGED <<ac3ret, pc, initialAc3>>
              ELSE /\ queue' = Tail(queue)
                   /\ UNCHANGED <<ac3ret, pc, initialAc3>>
    /\ UNCHANGED <<env, assignment, stack, result>>

\* ac3, line 168: the worklist is empty
Ac3ReturnTrue ==
    /\ pc = "ac3_loop"
    /\ queue = <<>>
    /\ ac3ret' = TRUE
    /\ pc' = "ac3_done"
    /\ initialAc3' = IF stack = <<>> THEN "true" ELSE initialAc3
    /\ UNCHANGED <<env, ac3stats, revised, domains, queue, assignment, stack, result>>

\* solve, lines 95-96: the value of self.ac3() is dropped, backtrack(dict()) is called
SolveCallBacktrack ==
    /\ pc = "ac3_done"
    /\ stack = <<>>
    /\ assignment' = EmptyAssignment
    /\ pc' = "bt_enter"
    /\ UNCHANGED <<env, ac3stats, revised, domains, queue, ac3ret, stack, result, initialAc3>>

\* backtrack, lines 261-266: return a complete assignment, or select a slot and order its words
BacktrackEnter ==
    /\ pc = "bt_enter"
    /\ IF AssignmentComplete(crossword, assignment)
       THEN /\ result' = [returned |-> TRUE, none |-> FALSE, assignment |-> assignment]
            /\ pc' = IF stack = <<>> THEN "done" ELSE "bt_return"
            /\ UNCHANGED stack
       ELSE IF SortedVariables(crossword, varOrder, domains, assignment) = <<>>
       THEN /\ pc' = "error"
            /\ UNCHANGED <<stack, result>>
       ELSE \E var \in {SelectUnassignedVariable(crossword, varOrder, domains, assignment)} :
                /\ \E iter \in Perms(domains[var]) :
                       stack' = Append(stack,
                                       Frame(assignment, var,
                                             OrderDomainValues(crossword, domains, var, iter),
                                             domains))
                /\ pc' = "bt_loop"
                /\ UNCHANGED result
    /\ UNCHANGED <<env, ac3stats, revised, domains, queue, ac3ret, assignment, initialAc3>>

\* backtrack that does not restrict the slot's domain to the word it tries
TryValueKeepsDomain ==
    /\ pc = "bt_loop"
    /\ Top.next <= Len(Top.values)
    /\ LET value == Top.values[Top.next]
           var == Top.var
       IN  stack' = [stack EXCEPT ![Len(stack)] =
                        [@ EXCEPT !.next = @ + 1,
                                  !.value = value,
                                  !.new_assignment = (var :> value) @@ Top.assignment,
                                  !.inferenceValues = {},
                                  !.before = domains]]
    /\ pc' = "ac3_start"
    /\ UNCHANGED <<env, ac3stats, revised, domains, queue, ac3ret, assignment, result, initialAc3>>

\* backtrack whose new_assignment is the caller's dict itself and not a copy of it
TryValueAliased ==
    /\ pc = "bt_loop"
    /\ Top.next <= Len(Top.values)
    /\ LET value == Top.values[Top.next]
           var == Top.var
           inferenceValues == {oldValue \in domains[var] : oldValue # value}
       IN  /\ stack' = [stack EXCEPT ![Len(stack)] =
                           [@ EXCEPT !.next = @ + 1,
                                     !.value = value,
                                     !.assignment = (var :> value) @@ Top.assignment,
                                     !.new_assignment = (var :> value) @@ Top.assignment,
                                     !.inferenceValues = inferenceValues,
                                     !.before = domains]]
           /\ domains' = [domains EXCEPT ![var] = @ \ inferenceValues]
    /\ pc' = "ac3_start"
    /\ UNCHANGED <<env, ac3stats, revised, queue, ac3ret, assignment, result, initialAc3>>

\* backtrack, lines 266-276: try the next word, restrict the slot's domain to it, call ac3
TryValue ==
    /\ pc = "bt_loop"
    /\ Top.next <= Len(Top.values)
    /\ LET value == Top.values[Top.next]
           var == Top.var
           inferenceValues == {oldValue \in domains[var] : oldValue # value}
       IN  /\ stack' = [stack EXCEPT ![Len(stack)] =
                           [@ EXCEPT !.next = @ + 1,
                                     !.value = value,
                                     !.new_assignment = (var :> value) @@ Top.assignment,
                                     !.inferenceValues = inferenceValues,
                                     !.before = domains]]
           /\ domains' = [domains EXCEPT ![var] = @ \ inferenceValues]
    /\ pc' = "ac3_start"
    /\ UNCHANGED <<env, ac3stats, revised, queue, ac3ret, assignment, result, initialAc3>>

\* backtrack, lines 276-278: recurse when ac3 succeeded and the new assignment is consistent
AfterAc3 ==
    /\ pc = "ac3_done"
    /\ stack # <<>>
    /\ IF ac3ret /\ ConsistentRaises(crossword, Top.new_assignment)
       THEN /\ pc' = "error"
            /\ UNCHANGED assignment
       ELSE IF ac3ret /\ Consistent(crossword, Top.new_assignment)
       THEN /\ assignment' = Top.new_assignment
            /\ pc' = "bt_enter"
       ELSE /\ pc' = "bt_restore"
            /\ UNCHANGED assignment
    /\ UNCHANGED <<env, ac3stats, revised, domains, queue, ac3ret, stack, result, initialAc3>>

\* a restoration that resets the slot's domain to the dictionary, as __init__ does
RestoreFromDictionary ==
    /\ pc = "bt_restore"
    /\ domains' = [domains EXCEPT ![Top.var] = crossword.words]
    /\ pc' = "bt_loop"
    /\ UNCHANGED <<env, ac3stats, revised, queue, ac3ret, assignment, stack, result, initialAc3>>

\* backtrack, lines 282-283: put the removed words back into the slot's domain
Restore ==
    /\ pc = "bt_restore"
    /\ domains' = [domains EXCEPT ![Top.var] = @ \cup Top.inferenceValues]
    /\ pc' = "bt_loop"
    /\ UNCHANGED <<env, ac3stats, revised, queue, ac3ret, assignment, stack, result, initialAc3>>

\* backtrack, line 285: every word failed, return None to the caller
Exhausted ==
    /\ pc = "bt_loop"
    /\ Top.next > Len(Top.values)
    /\ stack' = SubSeq(stack, 1, Len(stack) - 1)
    /\ IF Len(stack) = 1
       THEN /\ result' = [returned |-> TRUE, none |-> TRUE, assignment |-> EmptyAssignment]
            /\ pc' = "done"
       ELSE /\ pc' = "bt_restore"
            /\ UNCHANGED result
    /\ UNCHANGED <<env, ac3stats, revised, domains, queue, ac3ret, assignment, initialAc3>>

\* a frame that runs the restoring loop of lines 282-283 before it passes the result on
ReturnResultRestoring ==
    /\ pc = "bt_return"
    /\ domains' = [domains EXCEPT ![Top.var] = @ \cup Top.inferenceValues]
    /\ stack' = SubSeq(stack, 1, Len(stack) - 1)
    /\ pc' = IF Len(stack) = 1 THEN "done" ELSE "bt_return"
    /\ UNCHANGED <<env, ac3stats, revised, queue, ac3ret, assignment, result, initialAc3>>

\* backtrack, lines 279-280: a frame passes the result of its recursive call on
ReturnResult ==
    /\ pc = "bt_return"
    /\ stack' = SubSeq(stack, 1, Len(stack) - 1)
    /\ pc' = IF Len(stack) = 1 THEN "done" ELSE "bt_return"
    /\ UNCHANGED <<env, ac3stats, revised, domains, queue, ac3ret, assignment, result, initialAc3>>

Next ==
    \/ NodeConsistency
    \/ Ac3Start
    \/ Ac3Revise
    \/ Ac3ReturnTrue
    \/ SolveCallBacktrack
    \/ BacktrackEnter
    \/ TryValue
    \/ AfterAc3
    \/ Restore
    \/ Exhausted
    \/ ReturnResult

Spec == Init /\ [][Next]_vars

\* solve runs to its end: the program is one sequential thread that is never suspended
FairSpec == Spec /\ WF_vars(Next)

-----------------------------------------------------------------------------
(* Properties *)

\* characters of two words agree at the overlap of their slots
OverlapAgrees(u, v, wu, wv) ==
    wu[Overlaps(u, v)[1] + 1] = wv[Overlaps(u, v)[2] + 1]

\* a is a valid assignment of the slots it assigns
ValidAssignment(a) ==
    /\ \A v \in DOMAIN a : Len(a[v]) = v.length
    /\ \A u, v \in DOMAIN a : u # v => a[u] # a[v]
    /\ \A u, v \in DOMAIN a :
          (u # v /\ Overlaps(u, v) # None) => OverlapAgrees(u, v, a[u], a[v])

Returned == pc = "done"

\* C1: a complete assignment returned by solve assigns every slot a word of the
\* slot's length, assigns pairwise distinct words, and neighbouring slots agree
\* on the character at their overlap.
C1_SolutionValid ==
    (Returned /\ ~result.none) =>
        /\ DOMAIN result.assignment = crossword.variables
        /\ ValidAssignment(result.assignment)

C1_Witness ==
    /\ Returned /\ ~result.none
    /\ Cardinality(crossword.variables) = 3
    /\ \E u, v \in crossword.variables : u # v /\ Overlaps(u, v) # None

\* some valid complete assignment over the dictionary exists
SolutionExists ==
    \E a \in [crossword.variables -> crossword.words] : ValidAssignment(a)

\* C2: whenever a valid complete assignment exists, solve returns a complete
\* assignment and not no-solution.
C2_Complete ==
    (Returned /\ SolutionExists) => ~result.none

\* C3: after a candidate failed and the frame restored, the whole domain map
\* equals what it was immediately before the candidate was tried; a frame that
\* returns failure leaves the domain map as it was when the frame was entered.
C3_DomainsRestored ==
    /\ (pc = "bt_loop" /\ Top.next > 1) => domains = Top.before
    /\ (pc = "bt_loop" /\ Top.next > Len(Top.values)) => domains = Top.entry

\* C4 as stated: when the propagation run by solve fails, solve returns
\* no-solution at once and backtrack is never entered.
C4_SearchNeverEntered ==
    initialAc3 = "false" => (pc \in {"ac3_done", "done"} /\ stack = <<>>)

\* C4 amended: when the propagation run by solve fails, solve returns
\* no-solution; backtrack is entered once (the value of ac3 is dropped), the
\* slot it selects has an empty domain, so it tries no word and does not recurse.
C4_FailedPropagationNoSolution ==
    initialAc3 = "false" =>
        /\ pc \in {"ac3_done", "bt_enter", "bt_loop", "done"}
        /\ Len(stack) <= 1
        /\ \A k \in 1..Len(stack) : stack[k].values = <<>>
        /\ Returned => result.none

C4_Witness ==
    initialAc3 = "false" /\ Returned /\ result.none

\* C5: solve terminates, and it ends with a complete assignment or with
\* no-solution: never in an error, never with a partial assignment.
C5_Terminates ==
    <>(/\ Returned
       /\ result.returned
       /\ result.none \/ DOMAIN result.assignment = crossword.variables)

C5_Witness ==
    Returned /\ ~result.none /\ Cardinality(crossword.variables) = 3

\* w2 in the domain of y supports w in the domain of x
Supports(x, y, w, w2) ==
    w2 # w /\ OverlapAgrees(x, y, w, w2)

\* C6: revise(x, y) keeps in the domain of x exactly the words that have a
\* support in the domain of y (a different word with the same character at the
\* overlap), changes no other domain, and returns true iff it removed a word.
C6_Revise ==
    [][Ac3Revise =>
        LET x == deQueue(queue)[1]
            y == deQueue(queue)[2]
        IN  /\ domains'[x] = {w \in domains[x] : \E w2 \in domains[y] : Supports(x, y, w, w2)}
            /\ \A v \in crossword.variables \ {x} : domains'[v] = domains[v]
            /\ revised' = (domains'[x] # domains[x])]_vars

\* a revise removed a word and kept another
C6_Witness ==
    /\ pc = "ac3_loop" /\ revised
    /\ \E v \in crossword.variables :
          domains[v] # {} /\ domains[v] # {w \in crossword.words : Len(w) = v.length}

\* C7: when ac3 returns success, every word in the domain of a slot has a
\* compatible word in the domain of each neighbouring slot.
C7_ArcConsistent ==
    (pc = "ac3_done" /\ ac3ret) =>
        \A x \in crossword.variables : \A y \in Neighbors(crossword, x) :
            \A w \in domains[x] : \E w2 \in domains[y] : OverlapAgrees(x, y, w, w2)

C7_Witness ==
    /\ pc = "ac3_done" /\ ac3ret
    /\ \E x \in crossword.variables :
          /\ Neighbors(crossword, x) # {}
          /\ Cardinality(domains[x]) >= 2
          /\ domains[x] # {w \in crossword.words : Len(w) = x.length}

\* C8: when ac3 returns success no domain is empty (ac3 returns failure
\* whenever some domain is empty when it ends).
C8_NoEmptyDomain ==
    (pc = "ac3_done" /\ ac3ret) => \A v \in crossword.variables : domains[v] # {}

\* C9: after enforce_node_consistency the domain of every slot is exactly the
\* set of dictionary words of the slot's length.
C9_NodeConsistent ==
    (pc = "ac3_start" /\ stack = <<>>) =>
        \A v \in crossword.variables :
            domains[v] = {w \in crossword.words : Len(w) = v.length}

\* some word was removed from a domain and some word was kept in it
C9_Witness ==
    /\ pc = "ac3_start" /\ stack = <<>>
    /\ \E v \in crossword.variables : domains[v] # {} /\ domains[v] # crossword.words

\* C12: every step except the restoration of backtrack (each revise of ac3,
\* each restriction of a slot's domain to the word tried) leaves every slot's
\* domain a subset of what it was before the step.
C12_DomainsShrink ==
    [][pc # "bt_restore" =>
          \A v \in crossword.variables : domains'[v] \subseteq domains[v]]_vars

\* the search restricted a slot's domain and a revise then removed a word
C12_Witness ==
    /\ pc = "ac3_loop" /\ revised
    /\ stack # <<>> /\ Top.inferenceValues # {}

\* C13: every run of ac3 ends, and when it ends the number of revise calls of
\* the run that removed a word is at most the number of candidate words in all
\* domains when the run started.
C13_Ac3Terminates ==
    (pc = "ac3_start") ~> (pc = "ac3_done" /\ ac3stats.productive <= ac3stats.start)

\* a run of ac3 ended after at least two revise calls that removed words
C13_Witness == pc = "ac3_done" /\ ac3stats.productive >= 2

\* C15: on the cross of one ACROSS and one DOWN slot of length 3 meeting at
\* index 1 of each, with the dictionary {cat, car, dog}, solve returns a complete
\* assignment using cat and car, one in each slot, never no-solution.
C15_CrossCatCar ==
    (Returned /\ crossword = CrossCatCarDog) =>
        /\ ~result.none
        /\ DOMAIN result.assignment = crossword.variables
        /\ {result.assignment[v] : v \in crossword.variables} = {Cat, Car}

\* the run on the cross returned with car in the across slot
C15_Witness ==
    /\ Returned /\ crossword = CrossCatCarDog
    /\ ~result.none
    /\ result.assignment[Variable(1, 0, ACROSS, 3)] = Car

\* C16: with two slots of equal length that share no cell and a dictionary with
\* exactly one word of that length, solve returns no-solution.
C16_OneWordTwoSlots ==
    (/\ Returned
     /\ crossword.variables = {Variable(0, 0, ACROSS, 3), Variable(2, 0, ACROSS, 3)}
     /\ Cardinality({w \in crossword.words : Len(w) = 3}) = 1)
        => result.none

\* such a run returned, and the search had assigned the word to one slot
C16_Witness ==
    /\ Returned /\ result.none
    /\ crossword.variables = {Variable(0, 0, ACROSS, 3), Variable(2, 0, ACROSS, 3)}
    /\ Cardinality({w \in crossword.words : Len(w) = 3}) = 1
    /\ Cardinality(DOMAIN assignment) = 1

\* C17: whenever node consistency leaves some slot with an empty domain, solve
\* returns no-solution, whether or not that slot has neighbours.
C17_EmptySlotNoSolution ==
    (/\ Returned
     /\ \E v \in crossword.variables : EnforceNodeConsistency(initialDomains)[v] = {})
        => result.none

\* such a run returned and the empty slot had no neighbour, so that no revise
\* ever looked at it
C17_Witness ==
    /\ Returned /\ result.none
    /\ \E v \in crossword.variables :
          /\ EnforceNodeConsistency(initialDomains)[v] = {}
          /\ Neighbors(crossword, v) = {}

\* C18: no step of backtrack changes the assignment a frame was given: every
\* frame that stays on the stack keeps its assignment by value, and the slot a
\* frame is trying is never assigned in that frame's assignment, in particular
\* after a candidate failed and after the callee returned failure.
C18_AssignmentKept ==
    [][/\ \A k \in 1..Len(stack) :
             k <= Len(stack') => stack'[k].assignment = stack[k].assignment
       /\ \A k \in 1..Len(stack') :
             stack'[k].var \notin DOMAIN stack'[k].assignment]_vars

\* a candidate failed in a frame that was given a non-empty assignment, and the
\* frame goes on to its next candidate
C18_Witness ==
    /\ pc = "bt_loop"
    /\ Len(stack) >= 2
    /\ Top.next > 1 /\ Top.next <= Len(Top.values)
    /\ Top.assignment = stack[Len(stack) - 1].new_assignment

\* C19: every assignment backtrack is called on assigns no word to two slots and
\* makes every pair of assigned neighbouring slots agree at their overlap, and a
\* recursive call is made on the caller's assignment extended by exactly one
\* slot that the caller's assignment did not assign.
C19_SearchInvariant ==
    pc = "bt_enter" =>
        /\ \A u, v \in DOMAIN assignment : u # v => assignment[u] # assignment[v]
        /\ \A u, v \in DOMAIN assignment :
              (u # v /\ Overlaps(u, v) # None) =>
                  OverlapAgrees(u, v, assignment[u], assignment[v])
        /\ stack # <<>> =>
              /\ Top.var \notin DOMAIN Top.assignment
              /\ DOMAIN assignment = DOMAIN Top.assignment \cup {Top.var}
              /\ \A v \in DOMAIN Top.assignment : assignment[v] = Top.assignment[v]

\* backtrack recurses from its second level on an assignment of two neighbouring slots
C19_Witness ==
    /\ pc = "bt_enter"
    /\ Len(stack) = 2
    /\ \E u, v \in DOMAIN assignment : u # v /\ Overlaps(u, v) # None

\* C20: the slot select_unassigned_variable returned to a frame is not assigned
\* by the frame's assignment, and no unassigned slot had a smaller domain when
\* it was selected.
C20_MinimumRemainingValues ==
    \A k \in 1..Len(stack) :
        /\ stack[k].var \in crossword.variables \ DOMAIN stack[k].assignment
        /\ \A u \in crossword.variables \ DOMAIN stack[k].assignment :
              Cardinality(stack[k].entry[stack[k].var]) <= Cardinality(stack[k].entry[u])

\* a slot was selected although an unassigned slot with a larger domain comes
\* before it in the iteration over crossword.variables
C20_Witness ==
    /\ stack # <<>>
    /\ \E a, b \in 1..Len(varOrder) :
          /\ a < b
          /\ varOrder[b] = Top.var
          /\ varOrder[a] \notin DOMAIN Top.assignment
          /\ Cardinality(Top.entry[varOrder[a]]) > Cardinality(Top.entry[Top.var])

\* the number of neighbouring slots of a slot
Degree(cw, var) == Cardinality(Neighbors(cw, var))

\* C21: when several unassigned slots tie on the minimum domain size, the slot
\* select_unassigned_variable returned to a frame has the largest number of
\* neighbouring slots among those tied.
C21_DegreeTieBreak ==
    \A k \in 1..Len(stack) :
        \A u \in crossword.variables \ DOMAIN stack[k].assignment :
            Cardinality(stack[k].entry[u]) = Cardinality(stack[k].entry[stack[k].var])
                => Degree(crossword, stack[k].var) >= Degree(crossword, u)

\* the number of neighbours of var whose domain holds a word that differs from
\* value at the overlap, i.e. that would lose a candidate if var took value
LosingNeighbors(cw, doms, var, value) ==
    Cardinality({neighbor \in Neighbors(cw, var) :
                    \E w \in doms[neighbor] :
                        \/ Len(w) <= Overlaps(var, neighbor)[2]
                        \/ Len(value) <= Overlaps(var, neighbor)[1]
                        \/ ~OverlapAgrees(var, neighbor, value, w)})

\* C23: the list order_domain_values returns to a frame holds every word of the
\* selected slot's domain exactly once and no other word, and the call leaves
\* the domain map unchanged; the frame tries the words of the list one after
\* the other and returns failure only after it has tried them all.
C23_NoFilter ==
    [][/\ (pc = "bt_enter" /\ pc' = "bt_loop") =>
              /\ domains' = domains
              /\ Range(Top'.values) = domains[Top'.var]
              /\ Len(Top'.values) = Cardinality(domains[Top'.var])
       /\ (pc = "bt_loop" /\ pc' = "ac3_start") =>
              /\ Top'.value = Top.values[Top.next]
              /\ Top'.next = Top.next + 1
              /\ Top'.values = Top.values
       /\ (pc = "bt_loop" /\ Len(stack') < Len(stack)) =>
              /\ Top.next = Len(Top.values) + 1
              /\ Range(Top.values) = Top.entry[Top.var]]_vars

\* a frame has tried both words of its slot's domain and none succeeded
C23_Witness ==
    /\ pc = "bt_loop"
    /\ Len(Top.values) >= 2
    /\ Top.next > Len(Top.values)

\* C24: once a call of backtrack has returned a complete assignment, every step
\* that follows is an enclosing frame returning: the result stays that same
\* assignment, the domain map is not written, no candidate is tried, and the
\* frames below the returning one are as they were.
C24_FirstSuccessWins ==
    [][(result.returned /\ ~result.none) =>
          /\ result' = result
          /\ domains' = domains
          /\ pc = "bt_return" /\ pc' \in {"bt_return", "done"}
          /\ stack' = SubSeq(stack, 1, Len(stack) - 1)]_vars

\* the complete assignment has been passed up by the innermost of three frames,
\* and the frame now returning had removed words from its slot's domain
C24_Witness ==
    /\ pc = "bt_return"
    /\ Len(stack) = 2
    /\ Top.inferenceValues # {}
    /\ result.returned /\ ~result.none

\* no arc is pending twice
NoArcTwice(q) == \A a, b \in 1..Len(q) : a # b => q[a] # q[b]

\* C25: in ac3, after a revise(x, y) that removed a word and left x's domain
\* non-empty, the arc (z, x) of every neighbour z of x other than y is pending
\* and no arc is pending twice; after a revise that emptied x's domain, ac3
\* returns False at once and revises no further arc.
C25_ReEnqueue ==
    [][(pc = "ac3_loop" /\ queue # <<>>) =>
          LET x == Head(queue)[1]
              y == Head(queue)[2]
          IN  /\ NoArcTwice(queue')
              /\ (domains'[x] # domains[x] /\ domains'[x] # {}) =>
                    /\ \A z \in Neighbors(crossword, x) \ {y} : <<z, x>> \in Range(queue')
                    /\ pc' = "ac3_loop"
              /\ (domains'[x] # domains[x] /\ domains'[x] = {}) =>
                    /\ pc' = "ac3_done"
                    /\ ac3ret' = FALSE]_vars

\* a revise removed a word, and the worklist is no longer a tail of the initial
\* worklist: its last arc was put back, and it points at a non-empty domain
C25_Witness ==
    /\ pc = "ac3_loop" /\ revised /\ queue # <<>>
    /\ domains[queue[Len(queue)][2]] # {}
    /\ LET initial == removeNone(OverlapKeys(varOrder))
       IN  \A k \in 1..Len(initial) : SubSeq(initial, k, Len(initial)) # queue

\* C26: in every state after enforce_node_consistency every word of every
\* slot's domain is a dictionary word of the slot's length, and a restoration
\* leaves in each domain only words that were in it just before the candidate
\* was tried.
C26_DomainInvariant ==
    [][/\ pc' # "solve" =>
              \A v \in crossword.variables : \A w \in domains'[v] :
                  w \in crossword.words /\ Len(w) = v.length
       /\ pc = "bt_restore" =>
              \A v \in crossword.variables : domains'[v] \subseteq Top.before[v]]_vars

\* a restoration has put words back, and the dictionary has words of another length
C26_Witness ==
    /\ pc = "bt_loop" /\ Top.next > 1
    /\ Top.inferenceValues # {}
    /\ Top.inferenceValues \subseteq domains[Top.var]
    /\ \E w \in crossword.words : Len(w) # Top.var.length

C28_PruningSound ==
    (stack = <<>> /\ pc \in {"ac3_start", "ac3_loop", "ac3_done", "bt_enter"}) =>
        \A a \in [crossword.variables -> crossword.words] :
            ValidAssignment(a) => \A v \in crossword.variables : a[v] \in domains[v]

\* the search starts, a valid complete assignment exists, and the first run of
\* ac3 has removed a word of the right length from some domain
C28_Witness ==
    /\ stack = <<>> /\ pc = "bt_enter"
    /\ SolutionExists
    /\ \E v \in crossword.variables : domains[v] # EnforceNodeConsistency(initialDomains)[v]

-----------------------------------------------------------------------------
(* enforce_node_consistency called twice on an arbitrary domain map *)

\* largest number of words in a domain of the arbitrary domain map
MaxDomain == 2

InitNC ==
    /\ crossword \in [variables : Structures, words : {Pool}]
    /\ varOrder = CHOOSE order \in Perms(crossword.variables) : TRUE
    /\ domains \in [crossword.variables -> {d \in SUBSET Pool : Cardinality(d) <= MaxDomain}]
    /\ initialDomains = domains
    /\ pc = "nc_first"
    /\ queue = <<>>
    /\ revised = FALSE
    /\ ac3ret = FALSE
    /\ assignment = EmptyAssignment
    /\ stack = <<>>
    /\ result = NoResult
    /\ initialAc3 = "pending"
    /\ ac3stats = [start |-> 0, productive |-> 0]
    /\ firstResult = NoResult
    /\ ret = "none"

NodeConsistencyFirst ==
    /\ pc = "nc_first"
    /\ domains' = EnforceNodeConsistency(domains)
    /\ pc' = "nc_second"
    /\ UNCHANGED <<env, ac3stats, queue, revised, ac3ret, assignment, stack, result, initialAc3>>

NodeConsistencySecond ==
    /\ pc = "nc_second"
    /\ domains' = EnforceNodeConsistency(domains)
    /\ pc' = "nc_end"
    /\ UNCHANGED <<env, ac3stats, queue, revised, ac3ret, assignment, stack, result, initialAc3>>

NextNC == NodeConsistencyFirst \/ NodeConsistencySecond

SpecNC == InitNC /\ [][NextNC]_vars

\* C10: enforce_node_consistency is idempotent: the second call removes nothing.
C10_Idempotent ==
    [][NodeConsistencySecond => domains' = domains]_vars

\* both calls were made and the first one removed a word and kept another
C10_Witness ==
    /\ pc = "nc_end"
    /\ \E v \in crossword.variables : domains[v] # {} /\ domains[v] # initialDomains[v]

-----------------------------------------------------------------------------
(* consistent called alone on an arbitrary assignment *)

\* every assignment of some of the slots to words of the pool
Assignments(cw) ==
    UNION {[S -> Pool] : S \in SUBSET cw.variables}

InitConsistent ==
    /\ crossword \in [variables : Structures, words : {Pool}]
    /\ varOrder \in Perms(crossword.variables)
    /\ domains = [var \in crossword.variables |-> crossword.words]
    /\ initialDomains = domains
    /\ assignment \in Assignments(crossword)
    /\ pc = "consistent"
    /\ queue = <<>>
    /\ revised = FALSE
    /\ ac3ret = FALSE
    /\ stack = <<>>
    /\ result = NoResult
    /\ initialAc3 = "pending"
    /\ ac3stats = [start |-> 0, productive |-> 0]
    /\ firstResult = NoResult
    /\ ret = "none"

\* consistent(assignment), the keys of the dict being in any insertion order
CallConsistent ==
    /\ pc = "consistent"
    /\ \E keys \in Perms(DOMAIN assignment) :
           ret' = ConsistentCall(crossword, assignment, keys, {}, varOrder)
    /\ pc' = "consistent_done"
    /\ UNCHANGED <<crossword, varOrder, initialDomains, firstResult, domains, assignment,
                   queue, revised, ac3ret, stack, result, initialAc3, ac3stats>>

NextConsistent == CallConsistent

SpecConsistent == InitConsistent /\ [][NextConsistent]_vars

\* C11: consistent returns true iff every assigned word has its slot's length,
\* no word is assigned to two slots and every two assigned neighbouring slots
\* agree at their overlap; it changes neither the assignment nor the domains.
C11_Consistent ==
    [][CallConsistent =>
          /\ (ret' = "True") <=> ValidAssignment(assignment)
          /\ assignment' = assignment
          /\ domains' = domains]_vars

\* consistent accepted an assignment of three slots
C11_Witness ==
    /\ pc = "consistent_done" /\ ret = "True"
    /\ Cardinality(DOMAIN assignment) = 3

-----------------------------------------------------------------------------
(* the program run twice on the same structure and the same words *)

\* main, lines 300-302, run a second time: a new Crossword and a new
\* CrosswordCreator are built from the same input and solve is called; the
\* iteration orders of the sets are those of the new process
Restart ==
    /\ pc = "done"
    /\ ~firstResult.returned
    /\ firstResult' = result
    /\ varOrder' \in Perms(crossword.variables)
    /\ domains' = [var \in crossword.variables |-> crossword.words]
    /\ pc' = "solve"
    /\ queue' = <<>>
    /\ revised' = FALSE
    /\ ac3ret' = FALSE
    /\ assignment' = EmptyAssignment
    /\ stack' = <<>>
    /\ result' = NoResult
    /\ initialAc3' = "pending"
    /\ ac3stats' = [start |-> 0, productive |-> 0]
    /\ UNCHANGED <<crossword, initialDomains, ret>>

NextTwoRuns ==
    \/ Next
    \/ Restart

SpecTwoRuns == Init /\ [][NextTwoRuns]_vars

\* C14: the second run of solve on the same slots, overlaps and dictionary
\* returns what the first run returned: the same assignment, or no-solution
\* both times.
C14_Deterministic ==
    (Returned /\ firstResult.returned) => result = firstResult

-----------------------------------------------------------------------------
(* order_domain_values called on an arbitrary node-consistent domain map *)

\* the domain maps in which every word has the length of its slot
NodeConsistentDomains(cw) ==
    {doms \in [cw.variables -> {d \in SUBSET Pool : Cardinality(d) <= MaxDomain}] :
        \A v \in cw.variables : \A w \in doms[v] : Len(w) = v.length}

InitOrder ==
    /\ crossword \in [variables : Structures, words : {Pool}]
    /\ varOrder = CHOOSE order \in Perms(crossword.variables) : TRUE
    /\ domains \in NodeConsistentDomains(crossword)
    /\ initialDomains = domains
    /\ assignment = EmptyAssignment
    /\ pc = "order"
    /\ queue = <<>>
    /\ revised = FALSE
    /\ ac3ret = FALSE
    /\ stack = <<>>
    /\ result = NoResult
    /\ initialAc3 = "pending"
    /\ ac3stats = [start |-> 0, productive |-> 0]
    /\ firstResult = NoResult
    /\ ret = [var |-> None, values |-> <<>>]

\* order_domain_values(var, assignment), self.domains[var] being iterated in any order
CallOrderDomainValues ==
    /\ pc = "order"
    /\ \E var \in crossword.variables : \E iter \in Perms(domains[var]) :
           ret' = [var |-> var, values |-> OrderDomainValues(crossword, domains, var, iter)]
    /\ pc' = "order_done"
    /\ UNCHANGED <<crossword, varOrder, initialDomains, firstResult, domains, assignment,
                   queue, revised, ac3ret, stack, result, initialAc3, ac3stats>>

NextOrder == CallOrderDomainValues

SpecOrder == InitOrder /\ [][NextOrder]_vars

====
